---------------------------- MODULE Spec2Model ----------------------------
(***************************************************************************)
(* Model of the MedicalAssistant client:                                   *)
(*   - useSpeechRecognition (src/client/src/env.d.ts): the continuous      *)
(*     speech-capture hook driving the platform SpeechRecognition object;  *)
(*   - generateChatResponse (src/client/src/hooks/useChatbot.tsx): intent  *)
(*     detection, the model fallback loop and the service-data assembly.   *)
(*                                                                         *)
(* Strings are sequences of one-character strings, so that concatenation,  *)
(* includes, split and trim are computed as the code computes them.        *)
(*                                                                         *)
(* React state is modelled as two values per state cell: the state with   *)
(* every queued update applied in order (what the next render commits)    *)
(* and the value of the committed render, which is what the closures of   *)
(* that render read.  Nothing in the sources fixes the React version or   *)
(* the kind of root, so a step that sets state is either rendered in the  *)
(* same step (a legacy root, or React's own event handlers) or left to a   *)
(* later render (updates queued by a recognizer callback on a concurrent  *)
(* root).  A callback created by useCallback captures the state of the    *)
(* committed render.  Effects run after the render that scheduled them:   *)
(* in a step of their own, or around the next step whose updates are      *)
(* rendered.  The hook's options are fixed (the caller in useChatbot.tsx   *)
(* passes none), so one recognizer instance lives from the mount effect   *)
(* to the end of the run.                                                  *)
(***************************************************************************)
EXTENDS Integers, Sequences, FiniteSets, TLC

VARIABLES
    \* ---- useSpeechRecognition: React state (env.d.ts 88-99)
    hasRecognitionSupport, \* !!SpeechRecognition: does the platform have the API
    mounted,               \* the effect of 102-122 has run and the render with the
                           \* instance it set (setRecognition) is committed
    transcript,            \* useState<string>(""): the state, queued updates applied
    isListening,           \* useState<boolean>(false): the state, queued updates applied
    error,                 \* useState<string | null>(null): the state, queued updates applied
    renderedListening,     \* const isListening of the committed render (what the
                           \* closures of startListening and of useChatbot read)
    \* ---- the platform recognizer object owned by the hook
    recState,              \* "inactive" | "started" | "stopping" | "failed"
    onresult,              \* is recognition.onresult assigned
    onerror,               \* is recognition.onerror assigned
    onend,                 \* "none" | "plain" (141-143) | "keepalive" (193-199)
    onendCaptured,         \* isListening as captured by the keepalive closure
    \* ---- history variables (observations, not program state)
    restarts,              \* recognition.start() calls made by keepAliveHandler
    callerStopped,         \* stopListening() was called since the last startListening()
    finals,                \* best-alternative texts of the isFinal results since the
                           \* transcript was last empty, in event order
    uncaught,              \* an exception escaped a hook function or a handler
    startFailure,          \* how the last recognition.start() call failed:
                           \* "none" | "already started" | "other"
    lastOp,                \* the operation that produced this state
    \* ---- generateChatResponse: one call (useChatbot.tsx 137-266)
    pc,                    \* "idle" | "loop" | "fetching" (await at 195) |
                           \* "errorBody" (await at 213) | "body" (await at 228) | "done"
    message,               \* the message argument
    serviceType,           \* "none" | "appointment" | "search" | "video"
    query,                 \* the extracted query
    currentModelIndex,     \* 0-based index into models
    response,              \* 0 = null, else the 1-based candidate whose response is kept
    requested,             \* candidates requested in this call, in order
    outcomes,              \* the outcome of each request of this call, in order
    result,                \* what the call resolved with
    \* ---- useChatbot (useChatbot.tsx 7-135)
    inputValue,            \* useState('')
    isListeningForVoice,   \* useState(false)
    renderedTranscript,    \* const transcript of the committed render of useChatbot
                           \* (the dependency and the closure of the effect of 47-51)
    isLoading,             \* isLoading of the chat context (useChatbot.tsx 10)
    calls,                 \* the calls the last step of handleSendMessage made,
                           \* in the order of its statements
    pendingEffect,         \* the effect of 47-51 scheduled by the last committed
                           \* render whose transcript changed, until it has run
    sendStoppedCapture     \* history: handleSendMessage stopped an active capture,
                           \* and the user has not typed or started listening since

speechVars == <<hasRecognitionSupport, mounted, transcript, isListening, error,
                renderedListening, recState,
                onresult, onerror, onend, onendCaptured, restarts, callerStopped,
                finals, uncaught, startFailure, lastOp>>

chatVars == <<pc, message, serviceType, query, currentModelIndex, response,
              requested, outcomes, result>>

uiVars == <<inputValue, isListeningForVoice, renderedTranscript, isLoading, calls,
           pendingEffect, sendStoppedCapture>>

vars == <<speechVars, chatVars, uiVars>>

----------------------------------------------------------------------------
(* Bounds of the model *)

MaxTranscriptLen == 5
MaxResults == 2
MaxRestarts == 1
MaxWords == 3
MaxVoiceInputLen == 2

----------------------------------------------------------------------------
(* Strings *)

SP == " "

\* a + b on strings
Concat(a, b) == a \o b

\* A SpeechRecognitionResult: isFinal and its alternatives, best first.  The
\* platform delivers a recognized text alone or ahead of a second alternative.
AlternativeLists == { << <<"a">> >>, << <<"b", "c">>, <<"a">> >> }

SpeechResults == [isFinal : BOOLEAN, alts : AlternativeLists]

ResultLists == UNION { [1..n -> SpeechResults] : n \in 1..MaxResults }

----------------------------------------------------------------------------
(* useSpeechRecognition *)

\* error: string | null
NoError == [set |-> FALSE, text |-> "", code |-> ""]

ErrorMessage(text, code) == [set |-> TRUE, text |-> text, code |-> code]

\* event.error values the platform may report
ErrorCodes == {"network", "not-allowed", "service-not-allowed", "no-speech", "aborted"}

\* the switch of recognition.onerror; the default arm is the template
\* `Speech recognition error: ${event.error}`
MapError(code) ==
    CASE code = "network" ->
           ErrorMessage("Network error: Please check your internet connection and try again.", "")
      [] code = "not-allowed" ->
           ErrorMessage("Microphone access denied: Please allow microphone access in your browser settings.", "")
      [] code = "service-not-allowed" ->
           ErrorMessage("Speech recognition service not allowed: Please check your browser settings.", "")
      [] OTHER ->
           ErrorMessage("Speech recognition error: ", code)

\* Fault variant of recognition: the functions go on without the
\* `if (!recognition) return` guard.
recognitionUnguarded == TRUE

\* const [recognition] : null in the first render (useState(null), 97-99) and
\* for ever when the platform has no SpeechRecognition; the instance from the
\* mount effect on
recognition == hasRecognitionSupport /\ mounted

\* the effect of 102-122, run once after the first render: creates the
\* recognizer and stores it with setRecognition, unless the platform has none
MountEffect ==
    /\ ~mounted
    /\ mounted' = TRUE
    /\ lastOp' = "mount"
    /\ UNCHANGED <<hasRecognitionSupport, transcript, isListening, error, recState,
                   onresult, onerror, onend, onendCaptured, restarts, callerStopped,
                   finals, uncaught, startFailure>>

\* recognition.start(): throws InvalidStateError ("recognition has already
\* started") unless the recognizer is inactive
RecognitionStartThrows == recState # "inactive"

\* recognition.stop(): a request to stop; no effect unless started
RecognitionStop == IF recState = "started" THEN "stopping" ELSE recState

\* recognition.stop() throws: only the TypeError of a call on null, when
\* there is no instance.  The platform's stop() raises nothing in any state of
\* the recognizer (a stop of a recognizer that is not started is ignored).
RecognitionStopThrows == ~recognition

\* the loop of recognition.onresult: concatenation of the best alternative of
\* every final result from resultIndex (0-based) on
RECURSIVE CurrentTranscript(_, _)
CurrentTranscript(results, i) ==
    IF i >= Len(results) THEN <<>>
    ELSE LET r == results[i + 1]
         IN  Concat(IF r.isFinal THEN r.alts[1] ELSE <<>>,
                    CurrentTranscript(results, i + 1))

\* Fault variant of AppendTranscript: the event's text replaces the transcript.
ReplaceTranscript(prev, currentTranscript) == Concat(<<SP>>, currentTranscript)

\* setTranscript((prev) => prev + " " + currentTranscript)
AppendTranscript(prev, currentTranscript) ==
    Concat(Concat(prev, <<SP>>), currentTranscript)

\* the texts that loop selects, kept apart: the best alternative of every final
\* result from resultIndex on (what the history variable finals records)
RECURSIVE FinalTexts(_, _)
FinalTexts(results, i) ==
    IF i >= Len(results) THEN <<>>
    ELSE LET r == results[i + 1]
         IN  (IF r.isFinal THEN <<r.alts[1]>> ELSE <<>>) \o FinalTexts(results, i + 1)

\* the value of isListening inside the startListening closure: that of the
\* render in which the callback was created (deps [recognition, isListening]),
\* which is the committed render when the caller calls it
CapturedIsListening == renderedListening

\* how the recognition.start() call of this step fails.  platformFails: the
\* platform refuses the start for a reason of its own (an exception whose
\* message does not contain "already started")
StartFailure(platformFails) ==
    IF RecognitionStartThrows THEN "already started"
    ELSE IF platformFails THEN "other"
    ELSE "none"

\* startListening (125-203)
StartListening(platformFails) ==
    /\ lastOp' = "start"
    /\ callerStopped' = FALSE
    /\ UNCHANGED <<hasRecognitionSupport, transcript, restarts, finals, uncaught>>
    /\ IF ~recognition
       THEN \* if (!recognition) return;
            /\ startFailure' = "none"
            /\ UNCHANGED <<isListening, error, recState, onresult, onerror, onend,
                           onendCaptured>>
       ELSE /\ onresult' = TRUE
            /\ onerror' = TRUE
            /\ startFailure' = StartFailure(platformFails)
            /\ IF StartFailure(platformFails) # "none"
               THEN \* caught at 200-202: logged; the handlers of 129-169 stay assigned
                    /\ onend' = "plain"
                    /\ UNCHANGED <<isListening, error, recState, onendCaptured>>
               ELSE /\ recState' = "started"
                    /\ isListening' = TRUE
                    /\ error' = NoError
                    /\ onend' = "keepalive"
                    /\ onendCaptured' = CapturedIsListening

\* Fault variant of StopListening: without the `if (!recognition) return`
\* guard, so that stop() is called on null before the mount effect has run
\* and where the platform has no recognizer.
StopListeningUnguarded ==
    /\ lastOp' = "stop"
    /\ callerStopped' = TRUE
    /\ UNCHANGED <<hasRecognitionSupport, transcript, error, onresult, onerror, onend,
                   onendCaptured, restarts, finals, startFailure>>
    /\ IF RecognitionStopThrows
       THEN /\ uncaught' = TRUE
            /\ UNCHANGED <<recState, isListening>>
       ELSE /\ UNCHANGED uncaught
            /\ recState' = RecognitionStop
            /\ isListening' = FALSE

\* stopListening (206-211)
StopListening ==
    /\ lastOp' = "stop"
    /\ callerStopped' = TRUE
    /\ UNCHANGED <<hasRecognitionSupport, transcript, error, onresult, onerror, onend,
                   onendCaptured, restarts, finals, startFailure>>
    /\ IF ~recognition
       THEN UNCHANGED <<recState, isListening, uncaught>>
       ELSE /\ uncaught' = (uncaught \/ RecognitionStopThrows)
            /\ recState' = RecognitionStop
            /\ isListening' = FALSE

\* Fault variant of ResetTranscript: the reset also leaves the listening state.
ResetTranscriptStops ==
    /\ lastOp' = "reset"
    /\ transcript' = <<>>
    /\ finals' = <<>>
    /\ isListening' = FALSE
    /\ UNCHANGED <<hasRecognitionSupport, error, recState, onresult, onerror,
                   onend, onendCaptured, restarts, callerStopped, uncaught, startFailure>>

\* resetTranscript (214-216)
ResetTranscript ==
    /\ lastOp' = "reset"
    /\ transcript' = <<>>
    /\ finals' = <<>>
    /\ UNCHANGED <<hasRecognitionSupport, isListening, error, recState, onresult, onerror,
                   onend, onendCaptured, restarts, callerStopped, uncaught, startFailure>>

\* recognition.onresult (129-139), run by the platform's result event
OnResult(results, resultIndex) ==
    /\ recState \in {"started", "stopping"}
    /\ onresult
    /\ LET currentTranscript == CurrentTranscript(results, resultIndex)
       IN  /\ Len(transcript) + 1 + Len(currentTranscript) <= MaxTranscriptLen
           /\ transcript' = AppendTranscript(transcript, currentTranscript)
    /\ finals' = finals \o FinalTexts(results, resultIndex)
    /\ lastOp' = "result"
    /\ UNCHANGED <<hasRecognitionSupport, isListening, error, recState, onresult, onerror,
                   onend, onendCaptured, restarts, callerStopped, uncaught, startFailure>>

\* recognition.onerror (145-169), run by the platform's error event; the
\* platform fires end after error
OnError(code) ==
    /\ recState \in {"started", "stopping"}
    /\ onerror
    /\ isListening' = FALSE
    /\ error' = MapError(code)
    /\ recState' = "failed"
    /\ lastOp' = "error"
    /\ UNCHANGED <<hasRecognitionSupport, transcript, onresult, onerror, onend,
                   onendCaptured, restarts, callerStopped, finals, uncaught, startFailure>>

\* the end event runs the branch that calls setIsListening(false): the plain
\* handler, or the override of 193-199 with isListening false in its closure
EndSetsListening == ~(onend = "keepalive" /\ onendCaptured)

\* the handler in recognition.onend, run by the platform's end event: the
\* plain handler of 141-143, or the override of 193-199 around
\* keepAliveHandler (178-189), both reading the captured isListening.
\* platformFails: the platform refuses the restart of keepAliveHandler
OnEnd(platformFails) ==
    /\ recState \in {"started", "stopping", "failed"}
    /\ onend # "none"
    /\ ~EndSetsListening => restarts < MaxRestarts
    /\ lastOp' = "end"
    /\ UNCHANGED <<hasRecognitionSupport, transcript, error, onresult, onerror, onend,
                   onendCaptured, callerStopped, finals, uncaught>>
    /\ IF ~EndSetsListening
       THEN \* keepAliveHandler: recognition.start() on the ended recognizer;
            \* a failure is caught at 182-187 and at most logged
            /\ restarts' = restarts + 1
            /\ startFailure' = (IF platformFails THEN "other" ELSE "none")
            /\ recState' = (IF platformFails THEN "inactive" ELSE "started")
            /\ UNCHANGED isListening
       ELSE \* originalOnEnd / plain onend: setIsListening(false)
            /\ recState' = "inactive"
            /\ isListening' = FALSE
            /\ UNCHANGED <<restarts, startFailure>>

\* the committed isListening after a step of the hook.  wrote: the step has
\* set state, so that React renders; sync: that render is made in the step
\* and commits isListening as the step leaves it (the step's own update, or
\* the updates queued before a step that sets other state).  Otherwise the
\* updates stay queued and the committed isListening is the one of before.
Rendering(sync, wrote) ==
    renderedListening' = (IF sync /\ wrote THEN isListening' ELSE renderedListening)

\* React renders the updates that are queued (the hook body, 88-90, runs
\* again); of the hook's state only isListening is read by a closure
Render ==
    /\ renderedListening # isListening
    /\ renderedListening' = isListening
    /\ lastOp' = "render"
    /\ UNCHANGED <<hasRecognitionSupport, transcript, isListening, error, recState,
                   onresult, onerror, onend, onendCaptured, restarts, callerStopped,
                   finals, uncaught, startFailure>>

----------------------------------------------------------------------------
(* JavaScript string operations used by generateChatResponse *)

UpperCase == <<"A","B","C","D","E","F","G","H","I","J","K","L","M",
               "N","O","P","Q","R","S","T","U","V","W","X","Y","Z">>
LowerCase == <<"a","b","c","d","e","f","g","h","i","j","k","l","m",
               "n","o","p","q","r","s","t","u","v","w","x","y","z">>

\* String.prototype.toLowerCase
ToLowerCase(s) ==
    [i \in 1..Len(s) |->
        IF \E k \in 1..Len(UpperCase) : UpperCase[k] = s[i]
        THEN LowerCase[CHOOSE k \in 1..Len(UpperCase) : UpperCase[k] = s[i]]
        ELSE s[i]]

\* String.prototype.indexOf: 0-based index of the first occurrence, or -1
IndexOf(s, sub) ==
    LET hits == { i \in 0..(Len(s) - Len(sub)) : SubSeq(s, i + 1, i + Len(sub)) = sub }
    IN  IF hits = {} THEN -1
        ELSE CHOOSE i \in hits : \A j \in hits : i <= j

\* String.prototype.includes
Includes(s, sub) == IndexOf(s, sub) # -1

\* String.prototype.split with a non-empty string separator
RECURSIVE Split(_, _)
Split(s, sep) ==
    LET i == IndexOf(s, sep)
    IN  IF i = -1 THEN <<s>>
        ELSE <<SubSeq(s, 1, i)>> \o Split(SubSeq(s, i + Len(sep) + 1, Len(s)), sep)

\* the characters \s matches, among those the messages use
WhiteSpace == {" ", "\t", "\n"}

\* String.prototype.trim
RECURSIVE TrimStart(_)
TrimStart(s) ==
    IF s # <<>> /\ Head(s) \in WhiteSpace THEN TrimStart(Tail(s)) ELSE s

RECURSIVE TrimEnd(_)
TrimEnd(s) ==
    IF s # <<>> /\ s[Len(s)] \in WhiteSpace THEN TrimEnd(SubSeq(s, 1, Len(s) - 1)) ELSE s

Trim(s) == TrimEnd(TrimStart(s))

\* String.prototype.split(/\s+/)
RECURSIVE SplitWhiteSpace(_)
SplitWhiteSpace(s) ==
    LET ws == { i \in 1..Len(s) : s[i] \in WhiteSpace }
    IN  IF ws = {} THEN <<s>>
        ELSE LET i == CHOOSE k \in ws : \A j \in ws : k <= j
             IN  <<SubSeq(s, 1, i - 1)>> \o
                 SplitWhiteSpace(TrimStart(SubSeq(s, i, Len(s))))

\* Array.prototype.join(" ")
RECURSIVE JoinSpace(_)
JoinSpace(words) ==
    IF words = <<>> THEN <<>>
    ELSE IF Len(words) = 1 THEN words[1]
    ELSE words[1] \o <<SP>> \o JoinSpace(Tail(words))

\* Array.prototype.filter
RECURSIVE Filter(_, _)
Filter(words, drop) ==
    IF words = <<>> THEN <<>>
    ELSE (IF Head(words) \in drop THEN <<>> ELSE <<Head(words)>>) \o Filter(Tail(words), drop)

----------------------------------------------------------------------------
(* generateChatResponse: intent detection and query extraction *)

\* the keywords of the three tests at 145-159, in the order they are tested
AppointmentKeywords == { <<"a","p","p","o","i","n","t","m","e","n","t">>,
                         <<"s","c","h","e","d","u","l","e">>,
                         <<"b","o","o","k">> }
SearchKeywords == { <<"s","e","a","r","c","h">>,
                    <<"f","i","n","d"," ","i","n","f","o","r","m","a","t","i","o","n">>,
                    <<"l","o","o","k"," ","u","p">> }
VideoKeywords == { <<"v","i","d","e","o">>,
                   <<"y","o","u","t","u","b","e">>,
                   <<"w","a","t","c","h">> }

\* commonPhrases (271-280), in order
commonPhrases == <<
    <<"s","e","a","r","c","h"," ","f","o","r">>,
    <<"f","i","n","d"," ","i","n","f","o","r","m","a","t","i","o","n"," ","a","b","o","u","t">>,
    <<"l","o","o","k"," ","u","p">>,
    <<"t","e","l","l"," ","m","e"," ","a","b","o","u","t">>,
    <<"i","n","f","o","r","m","a","t","i","o","n"," ","o","n">>,
    <<"v","i","d","e","o"," ","a","b","o","u","t">>,
    <<"p","l","a","y"," ","a"," ","v","i","d","e","o"," ","o","n">>,
    <<"s","h","o","w"," ","m","e">> >>

\* wordsToRemove (297)
wordsToRemove == {
    <<"w","h","a","t">>, <<"w","h","e","r","e">>, <<"w","h","e","n">>, <<"h","o","w">>,
    <<"w","h","y">>, <<"c","a","n">>, <<"c","o","u","l","d">>, <<"w","o","u","l","d">>,
    <<"s","h","o","u","l","d">>, <<"i","s">>, <<"a","r","e">>, <<"w","a","s">>,
    <<"w","e","r","e">>, <<"y","o","u">>, <<"i">>, <<"m","e">>,
    <<"m","y">>, <<"m","i","n","e">>, <<"h","e","l","p">> }

\* the for loop of extractSearchQuery (284-292) from phrase k on: the query
\* after the first phrase of the list that the lower-cased message includes
RECURSIVE PhraseQuery(_, _)
PhraseQuery(msg, k) ==
    IF k > Len(commonPhrases) THEN msg
    ELSE IF Includes(ToLowerCase(msg), commonPhrases[k])
         THEN LET parts == Split(ToLowerCase(msg), commonPhrases[k])
              IN  IF Len(parts) > 1 THEN Trim(parts[2]) ELSE PhraseQuery(msg, k + 1)
         ELSE PhraseQuery(msg, k + 1)

\* extractSearchQuery (269-303)
extractSearchQuery(msg) ==
    LET q == PhraseQuery(msg, 1)
    IN  IF q = msg
        THEN Trim(JoinSpace(Filter(SplitWhiteSpace(ToLowerCase(msg)), wordsToRemove)))
        ELSE q

\* Fault variant of DetectServiceType: the search keywords are tested first.
DetectSearchFirst(msg) ==
    LET lowerMessage == ToLowerCase(msg)
    IN  IF \E k \in SearchKeywords : Includes(lowerMessage, k) THEN "search"
        ELSE IF \E k \in AppointmentKeywords : Includes(lowerMessage, k) THEN "appointment"
        ELSE IF \E k \in VideoKeywords : Includes(lowerMessage, k) THEN "video"
        ELSE "none"

\* serviceType as set at 142-159
DetectServiceType(msg) ==
    LET lowerMessage == ToLowerCase(msg)
    IN  IF \E k \in AppointmentKeywords : Includes(lowerMessage, k) THEN "appointment"
        ELSE IF \E k \in SearchKeywords : Includes(lowerMessage, k) THEN "search"
        ELSE IF \E k \in VideoKeywords : Includes(lowerMessage, k) THEN "video"
        ELSE "none"

\* query as set at 143-159: extracted only for search and video
DetectQuery(msg) ==
    IF DetectServiceType(msg) \in {"search", "video"} THEN extractSearchQuery(msg) ELSE <<>>

\* the messages the calls are made with
Messages == {
    <<"h","i"," ","t","h","e","r","e">>,
    <<"B","o","o","k"," ","a"," ","v","i","s","i","t">>,
    <<"s","e","a","r","c","h"," ","f","o","r"," ","f","l","u">>,
    <<"S","e","a","r","c","h"," ","f","o","r">>,
    <<"L","o","o","k"," ","u","p"," ","F","l","u">>,
    <<"w","a","t","c","h"," ","t","v">>,
    <<"s","e","a","r","c","h"," ","m","y"," ","b","o","o","k">>,
    <<"v","i","d","e","o"," ","a","b","o","u","t"," ","f","l","u">>,
    \* "video about"
    <<"v","i","d","e","o"," ","a","b","o","u","t">>,
    \* "tell me about diabetes"
    <<"t","e","l","l"," ","m","e"," ","a","b","o","u","t"," ","d","i","a","b","e","t","e","s">>,
    \* "show me asthma"
    <<"s","h","o","w"," ","m","e"," ","a","s","t","h","m","a">>,
    \* "I want to schedule an appointment and search for info"
    <<"I"," ","w","a","n","t"," ","t","o"," ","s","c","h","e","d","u","l","e"," ","a","n"," ","a","p","p","o","i","n","t","m","e","n","t"," ","a","n","d"," ","s","e","a","r","c","h"," ","f","o","r"," ","i","n","f","o">> }

\* The words and phrases that further messages are composed of.
Vocabulary == {
    <<"B","o","o","k"," ","a">>,
    <<"s","e","a","r","c","h"," ","f","o","r">>,
    <<"l","o","o","k"," ","u","p">>,
    <<"t","e","l","l"," ","m","e"," ","a","b","o","u","t">>,
    <<"s","h","o","w"," ","m","e">>,
    <<"W","a","t","c","h">>,
    <<"d","i","a","b","e","t","e","s">>,
    <<"a","s","t","h","m","a">>,
    <<"w","h","a","t"," ","i","s">> }

\* every message of one to MaxWords vocabulary entries, joined by single spaces
ComposedMessages ==
    { JoinSpace(ws) : ws \in UNION { [1..n -> Vocabulary] : n \in 1..MaxWords } }

\* the messages the intent detection is applied to on its own
InputMessages == Messages \cup ComposedMessages


----------------------------------------------------------------------------
(* generateChatResponse: the model fallback loop and the result *)

\* models (182)
models == <<"llama3-8b-8192", "mixtral-8x7b-32768", "gemma-7b-it">>

\* A JavaScript value found at data.choices[0].message.content: a string,
\* null/undefined, or a number.  A fixed text is a one-element sequence.
StringValue(chars) == [type |-> "string", str |-> chars, num |-> 0]
NullValue == [type |-> "null", str |-> <<>>, num |-> 0]
NumberValue(n) == [type |-> "number", str |-> <<>>, num |-> n]

\* JavaScript truthiness, as used by `content || "..."`
Truthy(v) ==
    CASE v.type = "string" -> v.str # <<>>
      [] v.type = "number" -> v.num # 0
      [] OTHER -> FALSE

Contents == { StringValue(<<"reply A">>), StringValue(<<"reply B">>), StringValue(<<>>),
              NullValue, NumberValue(42) }

\* What one fetch of a candidate can produce:
\*   network : fetch rejects
\*   status  : a response with ok = false; jsonOk: does its error body parse
\*   ok      : a response with ok = true; jsonOk: does the body parse,
\*             hasFirstChoice: is there a data.choices[0].message
NetworkFailure == [kind |-> "network", jsonOk |-> FALSE, hasFirstChoice |-> FALSE,
                   content |-> NullValue]
StatusFailure(jsonOk) == [kind |-> "status", jsonOk |-> jsonOk, hasFirstChoice |-> FALSE,
                          content |-> NullValue]
Success(jsonOk, hasFirstChoice, content) ==
    [kind |-> "ok", jsonOk |-> jsonOk, hasFirstChoice |-> hasFirstChoice,
     content |-> content]

Outcomes == {NetworkFailure} \cup { StatusFailure(j) : j \in BOOLEAN } \cup
            { Success(FALSE, FALSE, NullValue), Success(TRUE, FALSE, NullValue) } \cup
            { Success(TRUE, TRUE, c) : c \in Contents }

\* service: the object built at 234-253, or null
NullService == [isNull |-> TRUE, type |-> "none", query |-> <<>>, data |-> <<>>]

\* prepareAppointmentData (306-312)
prepareAppointmentData ==
    << <<"General Check-up", "Specialist Consultation", "Follow-up", "Vaccination">>,
       <<"Dr. Smith", "Dr. Johnson", "Dr. Williams", "Dr. Brown">> >>

\* prepareSearchData (315-374): title and summary
prepareSearchData(q) ==
    IF Includes(q, <<"d","i","a","b","e","t","e","s">>)
    THEN << <<"Diabetes Information">>,
            <<"Information about diabetes symptoms and management">> >>
    ELSE << q, <<"Information about ">> \o q >>

\* prepareVideoData (377-389): title and channel
prepareVideoData(q) ==
    << <<"Managing ">> \o q \o <<": Healthy Living Tips">>,
       q \o <<" Health Association">> >>

\* Fault variant of ServiceData: the payload is built without the tests of
\* the query.
ServiceDataWithoutQueryTest(type, q) ==
    IF type = "appointment"
    THEN [isNull |-> FALSE, type |-> "appointment", query |-> <<>>,
          data |-> prepareAppointmentData]
    ELSE IF type = "search"
    THEN [isNull |-> FALSE, type |-> "search", query |-> q, data |-> prepareSearchData(q)]
    ELSE IF type = "video"
    THEN [isNull |-> FALSE, type |-> "video", query |-> q, data |-> prepareVideoData(q)]
    ELSE NullService

\* serviceData as assembled at 234-253
ServiceData(type, q) ==
    IF type = "appointment"
    THEN [isNull |-> FALSE, type |-> "appointment", query |-> <<>>,
          data |-> prepareAppointmentData]
    ELSE IF type = "search" /\ q # <<>>
    THEN [isNull |-> FALSE, type |-> "search", query |-> q, data |-> prepareSearchData(q)]
    ELSE IF type = "video" /\ q # <<>>
    THEN [isNull |-> FALSE, type |-> "video", query |-> q, data |-> prepareVideoData(q)]
    ELSE NullService

\* the fixed texts of 231 and 262
FallbackText == <<"I'm sorry, I couldn't process your request.">>
ApologyText == <<"I apologize, but I'm having trouble processing your request right now. Please try again later.">>

\* what the promise settles with
Resolved(msg, service) == [kind |-> "resolved", message |-> msg, service |-> service]
NoResult == [kind |-> "pending", message |-> NullValue, service |-> NullService]

\* Fault variant of CatchResult: the catch block keeps the service payload of
\* the detected intent.
CatchResultWithService == Resolved(StringValue(ApologyText), ServiceData(serviceType, query))

\* the catch block (259-265)
CatchResult == Resolved(StringValue(ApologyText), NullService)

\* botResponse (231)
BotResponse(content) == IF Truthy(content) THEN content ELSE StringValue(FallbackText)

\* Fault variant of LoopContinues: the loop test without `response === null`.
LoopIgnoresResponse == currentModelIndex < Len(models)

\* the condition of the while loop (188)
LoopContinues == response = 0 /\ currentModelIndex < Len(models)

\* Fault variant of NextModelIndex: the index is not advanced, so the same
\* candidate is tried again.
StuckModelIndex(i) == i

\* currentModelIndex++ (220), run after every attempt
NextModelIndex(i) == i + 1

\* Fault variant of FinalResult: a body without a first choice is read with
\* optional chaining, so that the fallback text of 231 is returned for it.
FinalResultLenient(o) ==
    IF response = 0 THEN CatchResult
    ELSE IF ~o.jsonOk THEN CatchResult
    ELSE IF ~o.hasFirstChoice
         THEN Resolved(StringValue(FallbackText), ServiceData(serviceType, query))
    ELSE Resolved(BotResponse(o.content), ServiceData(serviceType, query))

\* lines 223-265, with the kept response o (0 when none): the outcome of
\* response.json(), the extraction and the assembly, or the catch block
FinalResult(o) ==
    IF response = 0 THEN CatchResult                  \* throw at 225
    ELSE IF ~o.jsonOk THEN CatchResult                \* response.json() rejects
    ELSE IF ~o.hasFirstChoice THEN CatchResult        \* TypeError at 231
    ELSE Resolved(BotResponse(o.content), ServiceData(serviceType, query))

\* generateChatResponse is called: lines 139-186.  historyOk: is
\* messageHistory an array of objects (otherwise 162 throws into the catch)
Call(msg, historyOk) ==
    /\ pc \in {"idle", "done"}
    /\ message' = msg
    /\ serviceType' = DetectServiceType(msg)
    /\ query' = DetectQuery(msg)
    /\ currentModelIndex' = 0
    /\ response' = 0
    /\ requested' = <<>>
    /\ outcomes' = <<>>
    /\ IF historyOk
       THEN pc' = "loop" /\ result' = NoResult
       ELSE pc' = "done" /\ result' = CatchResult
    /\ UNCHANGED speechVars

\* the loop test holds: the fetch of 195 is issued for models[currentModelIndex]
IssueRequest ==
    /\ pc = "loop"
    /\ LoopContinues
    /\ requested' = Append(requested, currentModelIndex + 1)
    /\ pc' = "fetching"
    /\ UNCHANGED <<message, serviceType, query, currentModelIndex, response, outcomes,
                   result>>
    /\ UNCHANGED speechVars

\* the awaited fetch settles with outcome o: lines 209-220.  A response with
\* ok = false makes the code await fetchResponse.json() at 213, so the call
\* goes back to the event loop before line 220; the other two outcomes reach
\* currentModelIndex++ without an await.
ReceiveOutcome(o) ==
    /\ pc = "fetching"
    /\ outcomes' = Append(outcomes, o)
    /\ response' = IF o.kind = "ok" THEN currentModelIndex + 1 ELSE response
    /\ IF o.kind = "status"
       THEN /\ pc' = "errorBody"
            /\ UNCHANGED currentModelIndex
       ELSE /\ pc' = "loop"
            /\ currentModelIndex' = NextModelIndex(currentModelIndex)
    /\ UNCHANGED <<message, serviceType, query, requested, result>>
    /\ UNCHANGED speechVars

\* the json() of 213 settles: the body is logged (214) or its rejection is
\* caught and logged (216-218); then currentModelIndex++ (220)
ErrorBodyRead ==
    /\ pc = "errorBody"
    /\ currentModelIndex' = NextModelIndex(currentModelIndex)
    /\ pc' = "loop"
    /\ UNCHANGED <<message, serviceType, query, response, requested, outcomes, result>>
    /\ UNCHANGED speechVars

\* the loop test fails: lines 223-228.  Without a kept response the throw of
\* 225 goes to the catch block at once; with one the code awaits
\* response.json() at 228.
ExitLoop ==
    /\ pc = "loop"
    /\ ~LoopContinues
    /\ IF response = 0
       THEN /\ result' = FinalResult(NetworkFailure)
            /\ pc' = "done"
       ELSE /\ pc' = "body"
            /\ UNCHANGED result
    /\ UNCHANGED <<message, serviceType, query, currentModelIndex, response, requested,
                   outcomes>>
    /\ UNCHANGED speechVars

\* the json() of 228 settles: lines 231-258, or the catch block of 259-265
Finish ==
    /\ pc = "body"
    /\ result' = FinalResult(outcomes[response])
    /\ pc' = "done"
    /\ UNCHANGED <<message, serviceType, query, currentModelIndex, response, requested,
                   outcomes>>
    /\ UNCHANGED speechVars

----------------------------------------------------------------------------
(* useChatbot: the input box and the voice toggle around the speech hook *)

\* the error codes delivered to useChatbot's hook: one with an arm of its own
\* in the switch of onerror and one of the default arm
ChatbotErrorCodes == {"network", "no-speech"}

\* the result events delivered to useChatbot's hook carry one result each
\* (events with several results only vary the text that is appended)
ChatbotResultLists == [1..1 -> SpeechResults]

\* what the user may type into the input box
TypedValues == { <<>>, <<" ">>, <<"h", "i">> }

\* the effect of 47-51 is scheduled by the first render and by every
\* committed render in which transcript has changed (its dependency list),
\* with the transcript of that render in its closure; it runs later, together
\* with whatever other effect is pending
NoEffect == [set |-> FALSE, transcript |-> <<>>]

EffectOf(t) == [set |-> TRUE, transcript |-> t]

\* the effect scheduled by a render that commits newTranscript: the effect
\* runs again when its dependency differs from that of the render before
ScheduledEffect(newTranscript, pending) ==
    IF newTranscript # renderedTranscript THEN EffectOf(newTranscript) ELSE pending

\* the body of the effect, with transcript t in its closure, run when the
\* input holds value: if (transcript) setInputValue(transcript)
InputAfterTranscript(t, value) == IF t # <<>> THEN t ELSE value

\* the input after the pending effect, if any, has written over value
Flushed(value) ==
    IF pendingEffect.set THEN InputAfterTranscript(pendingEffect.transcript, value)
    ELSE value

\* an effect is waiting to run: the mount effect of the hook (env.d.ts 102-122)
\* or the effect of 47-51
Pending == ~mounted \/ pendingEffect.set

\* When a step's updates are rendered, the effects that are pending run
\*   "before": before the handler's updates are applied (the handler is still
\*             the one of the committed render and reads its state);
\*   "after" : after them, in the same commit;
\*   "later" : in a later commit, so that they are still pending after the step.
\* handler: the step is a handler of useChatbot called by the user (otherwise
\* an event of the recognizer or of the chat context); renders: the step
\* changes state that is rendered.  A handler meets the effects in any of the
\* three ways, also when it sets the state it already has; an event that
\* renders nothing leaves the effects pending or runs them; an event that
\* renders in its own step runs them in its commit.
FlushModes == IF Pending THEN {"before", "after", "later"} ELSE {"after"}

FlushAllowed(mode, handler, renders) ==
    \/ ~Pending
    \/ handler
    \/ renders /\ mode = "after"
    \/ ~renders /\ mode \in {"after", "later"}

\* the hook's state differs from the committed render: updates are queued
Stale == <<renderedListening, renderedTranscript>> # <<isListening, transcript>>

\* A render in the step of a handler commits the handler's own updates and,
\* catchUp, every update queued before them; otherwise the queued updates of
\* the recognizer's callbacks are skipped and wait for a later render.
CatchUps == IF Stale THEN BOOLEAN ELSE {TRUE}

\* the committed render after a step that renders; wroteListening,
\* wroteTranscript: the step itself has set that state
Rendered(catchUp, wroteListening, wroteTranscript) ==
    /\ renderedListening' =
          (IF catchUp \/ wroteListening THEN isListening' ELSE renderedListening)
    /\ renderedTranscript' =
          (IF catchUp \/ wroteTranscript THEN transcript' ELSE renderedTranscript)

\* the input, the pending effect and the recognizer instance after a step
\* whose own update of the input, if it makes one (wrote), sets it to value.
\* Of an effect that stays pending and the effect the step's render schedules,
\* run one after the other, the later one decides the input unless the
\* transcript in its closure is empty.
Commit(mode, wrote, value) ==
    /\ inputValue' = (CASE mode = "before" -> IF wrote THEN value ELSE Flushed(inputValue)
                        [] mode = "after"  -> Flushed(IF wrote THEN value ELSE inputValue)
                        [] OTHER           -> IF wrote THEN value ELSE inputValue)
    /\ pendingEffect' =
          LET scheduled == ScheduledEffect(renderedTranscript', NoEffect)
          IN  IF mode = "later" /\ pendingEffect.set /\ scheduled.transcript = <<>>
              THEN pendingEffect
              ELSE scheduled
    /\ mounted' = (mounted \/ mode # "later")

\* a callback of the recognizer has queued its updates and React has not
\* rendered them: the committed render, the input and the effects are as before
Deferred ==
    UNCHANGED <<renderedListening, renderedTranscript, inputValue, pendingEffect, mounted>>

\* after a callback of the recognizer: defer, its updates stay queued (a
\* concurrent root); otherwise they are rendered in the step (a legacy root),
\* with whatever was queued before them.  The step renders when the state
\* it leaves differs from the committed render.
EventCommit(mode, defer) ==
    IF defer
    THEN mode = "after" /\ Deferred
    ELSE /\ FlushAllowed(mode, FALSE,
                         \/ <<isListening', transcript'>> #
                               <<renderedListening, renderedTranscript>>
                         \/ error' # error)
         /\ Rendered(TRUE, FALSE, FALSE)
         /\ Commit(mode, FALSE, inputValue)

\* the state of the speech hook and its recognizer, without the recognizer
\* instance (mounted) and the history variable lastOp
hookState == <<hasRecognitionSupport, transcript, isListening, error, recState,
               onresult, onerror, onend, onendCaptured, restarts, callerStopped,
               finals, uncaught, startFailure>>

\* React runs the effects it has scheduled, with no handler around them; the
\* render their update asks for may commit the queued updates with it
RunEffects(catchUp) ==
    /\ Pending
    /\ lastOp' = "effects"
    /\ calls' = <<>>
    /\ UNCHANGED <<hookState, isListeningForVoice, sendStoppedCapture>>
    /\ Rendered(catchUp, FALSE, FALSE)
    /\ Commit("after", FALSE, inputValue)

\* React renders the updates the recognizer's callbacks have queued: the
\* bodies of useChatbot and of the hook run again, after the effects that
\* were pending
RenderQueued ==
    /\ Stale
    /\ lastOp' = "render"
    /\ calls' = <<>>
    /\ UNCHANGED <<hookState, isListeningForVoice, sendStoppedCapture>>
    /\ Rendered(TRUE, FALSE, FALSE)
    /\ Commit("after", FALSE, inputValue)

\* The handlers of useChatbot are handlers of React events (a click on the
\* voice button, the change event of the input, the key press that sends):
\* React renders the updates of such a handler before the next event is
\* handled, on every kind of root, so each of them renders in its own step.

\* toggleVoiceInput (64-72), the handler of the committed render: its
\* isListening is the one of that render, as is the startListening it calls
ToggleVoiceInput(platformFails, mode, catchUp) ==
    /\ IF renderedListening
       THEN /\ StopListening
            /\ isListeningForVoice' = FALSE
            /\ UNCHANGED sendStoppedCapture
       ELSE /\ StartListening(platformFails)
            /\ isListeningForVoice' = TRUE
            /\ sendStoppedCapture' = FALSE
    /\ calls' = <<>>
    /\ FlushAllowed(mode, TRUE, TRUE)
    /\ Rendered(catchUp,
                recognition /\ (renderedListening \/ StartFailure(platformFails) = "none"),
                FALSE)
    /\ Commit(mode, FALSE, inputValue)

\* handleInputChange (75-77)
HandleInputChange(value, mode, catchUp) ==
    /\ sendStoppedCapture' = FALSE
    /\ lastOp' = "type"
    /\ calls' = <<>>
    /\ UNCHANGED <<hookState, isListeningForVoice>>
    /\ FlushAllowed(mode, TRUE, value # inputValue)
    /\ Rendered(catchUp, FALSE, FALSE)
    /\ Commit(mode, TRUE, value)

\* a call made by a handler: the function called and its string argument
\* (<<>> where it takes none)
CallOf(fn, arg) == [fn |-> fn, arg |-> arg]

\* the calls of 91-101 in statement order; listening: isListening of the
\* render, value: inputValue of the render (const message = inputValue)
HandlerCalls(listening, value) ==
    (IF listening
     THEN <<CallOf("stopListening", <<>>), CallOf("setIsListeningForVoice", <<>>)>>
     ELSE <<>>)
    \o <<CallOf("setInputValue", <<>>), CallOf("resetTranscript", <<>>),
         CallOf("sendMessage", value)>>

\* Fault variant of SendRejected: a send is accepted while a reply is loading.
SendRejectedIgnoresLoading(loading) == Trim(inputValue) = <<>>

\* the guard of 89: if (inputValue.trim() === '' || isLoading) return
SendRejected(loading) == Trim(inputValue) = <<>> \/ loading

\* isLoading after the step of a handler.  sets: the handler has set state,
\* so that React renders; that render also commits a change of isLoading
\* that the chat context has queued before it (loading: the value it then
\* has).  The handler itself has read the isLoading of the render before.
LoadingCommitted(loading, sets) ==
    isLoading' = (IF sets THEN loading ELSE isLoading)

\* the chat context changes isLoading (while a reply is being produced)
LoadingChanges(loading, mode, catchUp) ==
    /\ isLoading' = loading
    /\ lastOp' = "loading"
    /\ calls' = <<>>
    /\ UNCHANGED <<hookState, isListeningForVoice, sendStoppedCapture>>
    /\ FlushAllowed(mode, FALSE, loading # isLoading)
    /\ Rendered(catchUp, FALSE, FALSE)
    /\ Commit(mode, FALSE, inputValue)

\* handleSendMessage (88-102); loading: isLoading of the chat context.  The
\* calls of stopListening and resetTranscript are those of the hook.  The
\* handler is the one of the committed render, so it reads the inputValue and
\* the isListening of that render whenever the pending effects run.
HandleSendMessage(loading, mode, catchUp) ==
    IF SendRejected(loading)
    THEN \* return at 89
         /\ lastOp' = "send-skipped"
         /\ calls' = <<>>
         /\ UNCHANGED <<hookState, isListeningForVoice, sendStoppedCapture>>
         /\ FlushAllowed(mode, TRUE, FALSE)
         /\ Rendered(catchUp, FALSE, FALSE)
         /\ Commit(mode, FALSE, inputValue)
    ELSE /\ lastOp' = "send"
         \* 92-95: stopListening(); setIsListeningForVoice(false)
         /\ IF renderedListening
            THEN /\ callerStopped' = TRUE
                 /\ IF ~recognition
                    THEN UNCHANGED <<uncaught, recState, isListening>>
                    ELSE /\ uncaught' = (uncaught \/ RecognitionStopThrows)
                         /\ recState' = RecognitionStop
                         /\ isListening' = FALSE
                 /\ isListeningForVoice' = FALSE
            ELSE UNCHANGED <<callerStopped, uncaught, recState, isListening,
                             isListeningForVoice>>
         /\ sendStoppedCapture' = (renderedListening /\ recState = "started")
         \* 97-101: setInputValue(''); resetTranscript(); sendMessage(message)
         /\ calls' = HandlerCalls(renderedListening, inputValue)
         /\ transcript' = <<>>
         /\ finals' = <<>>
         /\ UNCHANGED <<hasRecognitionSupport, error, onresult, onerror, onend,
                        onendCaptured, restarts, startFailure>>
         /\ FlushAllowed(mode, TRUE, TRUE)
         /\ Rendered(catchUp, renderedListening /\ recognition, TRUE)
         /\ Commit(mode, TRUE, <<>>)

----------------------------------------------------------------------------
(* Specifications *)

Init ==
    /\ hasRecognitionSupport \in BOOLEAN
    /\ mounted = FALSE
    /\ transcript = <<>>
    /\ isListening = FALSE
    /\ error = NoError
    /\ renderedListening = FALSE
    /\ renderedTranscript = <<>>
    /\ recState = "inactive"
    /\ onresult = FALSE
    /\ onerror = FALSE
    /\ onend = "none"
    /\ onendCaptured = FALSE
    /\ restarts = 0
    /\ callerStopped = FALSE
    /\ finals = <<>>
    /\ uncaught = FALSE
    /\ startFailure = "none"
    /\ lastOp = "init"
    /\ pc = "idle"
    /\ message = <<>>
    /\ serviceType = "none"
    /\ query = <<>>
    /\ currentModelIndex = 0
    /\ response = 0
    /\ requested = <<>>
    /\ outcomes = <<>>
    /\ result = NoResult
    /\ inputValue = <<>>
    /\ isListeningForVoice = FALSE
    /\ isLoading = FALSE
    /\ calls = <<>>
    /\ pendingEffect = EffectOf(<<>>)
    /\ sendStoppedCapture = FALSE

\* the speech-capture hook driven by its caller and by the platform
SpeechNext ==
    \/ MountEffect /\ Rendering(FALSE, FALSE) /\ UNCHANGED <<chatVars, uiVars>>
    \/ \E platformFails \in BOOLEAN : \E sync \in BOOLEAN :
          /\ StartListening(platformFails)
          /\ Rendering(sync, recognition /\ StartFailure(platformFails) = "none")
          /\ UNCHANGED <<mounted, chatVars, uiVars>>
    \/ \E sync \in BOOLEAN :
          /\ StopListening
          /\ Rendering(sync, recognition)
          /\ UNCHANGED <<mounted, chatVars, uiVars>>
    \/ \E catchUp \in BOOLEAN : \E flush \in (IF mounted THEN {FALSE} ELSE BOOLEAN) :
          \* setTranscript("") makes React render: the render may commit the
          \* updates queued before it, and React may run the pending mount
          \* effect before it handles the update
          /\ ResetTranscript
          /\ Rendering(catchUp, TRUE)
          /\ mounted' = (mounted \/ flush)
          /\ UNCHANGED <<chatVars, uiVars>>
    \/ \E results \in ResultLists : \E resultIndex \in 0..(Len(results) - 1) :
          /\ OnResult(results, resultIndex)
          /\ Rendering(FALSE, FALSE)
          /\ UNCHANGED <<mounted, chatVars, uiVars>>
    \/ \E code \in ErrorCodes : \E sync \in BOOLEAN :
          /\ OnError(code)
          /\ Rendering(sync, TRUE)
          /\ UNCHANGED <<mounted, chatVars, uiVars>>
    \/ \E platformFails \in BOOLEAN : \E sync \in BOOLEAN :
          /\ OnEnd(platformFails)
          /\ Rendering(sync, EndSetsListening)
          /\ UNCHANGED <<mounted, chatVars, uiVars>>
    \/ Render /\ UNCHANGED <<mounted, chatVars, uiVars>>

Spec == Init /\ [][SpeechNext]_vars

\* calls of generateChatResponse against providers that answer in any way
RespondNext ==
    \/ \E msg \in Messages : \E historyOk \in BOOLEAN :
          Call(msg, historyOk) /\ UNCHANGED uiVars
    \/ IssueRequest /\ UNCHANGED uiVars
    \/ \E o \in Outcomes : ReceiveOutcome(o) /\ UNCHANGED uiVars
    \/ ErrorBodyRead /\ UNCHANGED uiVars
    \/ ExitLoop /\ UNCHANGED uiVars
    \/ Finish /\ UNCHANGED uiVars

RespondSpec == Init /\ [][RespondNext]_vars

\* the intent detection and query extraction at the head of a call (139-159),
\* applied to every input message
ClassifyNext ==
    \E msg \in InputMessages : pc = "idle" /\ Call(msg, TRUE) /\ UNCHANGED uiVars

ClassifySpec == Init /\ [][ClassifyNext]_vars

\* useChatbot driven by the user and, through the speech hook, by the platform
ChatbotNext ==
    \/ \E platformFails \in BOOLEAN : \E mode \in FlushModes : \E catchUp \in CatchUps :
       \E loading \in BOOLEAN :
          /\ ToggleVoiceInput(platformFails, mode, catchUp)
          /\ LoadingCommitted(loading, TRUE)
          /\ UNCHANGED chatVars
    \/ \E value \in TypedValues : \E mode \in FlushModes : \E catchUp \in CatchUps :
       \E loading \in BOOLEAN :
          /\ HandleInputChange(value, mode, catchUp)
          /\ LoadingCommitted(loading, TRUE)
          /\ UNCHANGED chatVars
    \/ \E mode \in FlushModes : \E catchUp \in CatchUps : \E loading \in BOOLEAN :
          /\ HandleSendMessage(isLoading, mode, catchUp)
          /\ LoadingCommitted(loading, ~SendRejected(isLoading))
          /\ UNCHANGED chatVars
    \/ \E catchUp \in CatchUps : RunEffects(catchUp) /\ UNCHANGED <<isLoading, chatVars>>
    \/ RenderQueued /\ UNCHANGED <<isLoading, chatVars>>
    \/ \E loading \in BOOLEAN : \E mode \in FlushModes : \E catchUp \in CatchUps :
          LoadingChanges(loading, mode, catchUp) /\ UNCHANGED chatVars
    \/ \E results \in ChatbotResultLists : \E resultIndex \in 0..(Len(results) - 1) :
       \E defer \in BOOLEAN :
          /\ OnResult(results, resultIndex)
          /\ Len(transcript') <= MaxVoiceInputLen
          /\ EventCommit("after", defer)
          /\ calls' = <<>>
          /\ UNCHANGED <<isLoading, isListeningForVoice, sendStoppedCapture, chatVars>>
    \/ \E code \in ChatbotErrorCodes : \E mode \in FlushModes : \E defer \in BOOLEAN :
          /\ OnError(code)
          /\ EventCommit(mode, defer)
          /\ calls' = <<>>
          /\ UNCHANGED <<isLoading, isListeningForVoice, sendStoppedCapture, chatVars>>
    \/ \E platformFails \in BOOLEAN : \E mode \in FlushModes : \E defer \in BOOLEAN :
          /\ OnEnd(platformFails)
          /\ EventCommit(mode, defer)
          /\ calls' = <<>>
          /\ UNCHANGED <<isLoading, isListeningForVoice, sendStoppedCapture, chatVars>>

ChatbotSpec == Init /\ [][ChatbotNext]_vars

----------------------------------------------------------------------------
(* Properties of the speech-capture hook, checked under Spec *)

\* C1: After startListening has put the engine in Listening and the caller
\* has not called stopListening, a platform end event triggers exactly one
\* restart attempt of the recognizer and the engine stays Listening.
\* (The statement of the specification; the code does not satisfy it.)
C1_EndWhileListeningRestartsOnce ==
    [][ (isListening /\ ~callerStopped /\ lastOp' = "end")
           => (restarts' = restarts + 1 /\ isListening') ]_vars

\* C2: A platform end event that arrives after the caller has called
\* stopListening, and before any new startListening, never calls the
\* recognizer's start again: the end event is terminal and the engine is
\* Idle afterwards.
\* (The statement of the specification; the code does not satisfy it.)
C2_EndAfterStopIsTerminal ==
    [][ (callerStopped /\ lastOp' = "end")
           => (restarts' = restarts /\ recState' = "inactive" /\ ~isListening') ]_vars

\* C3: Starting from an empty transcript, the accumulated transcript equals
\* the space-joined concatenation of exactly the best-alternative texts of
\* the isFinal results, in event order; events carrying only interim
\* results leave it unchanged.
\* (The statement of the specification; the code does not satisfy it.)
C3_TranscriptIsSpaceJoinedFinals == transcript = JoinSpace(finals)

\* C8: A platform error event always forces the engine to Idle and surfaces
\* a non-null error mapped from the platform code (one fixed message each
\* for network, not-allowed and service-not-allowed, otherwise the message
\* carrying the code); while that error is surfaced the recognizer is never
\* restarted by the engine itself, also not on the end event that follows:
\* only a startListening call of the caller starts it again.
\* (The statement of the specification; the code does not satisfy it.)
C8_ErrorForcesIdleNoRestart ==
    [][ /\ \A code \in ErrorCodes :
              OnError(code) =>
                 /\ ~isListening'
                 /\ error'.set
                 /\ (code = "network") = (error'.text =
                       "Network error: Please check your internet connection and try again.")
                 /\ (code = "not-allowed") = (error'.text =
                       "Microphone access denied: Please allow microphone access in your browser settings.")
                 /\ (code = "service-not-allowed") = (error'.text =
                       "Speech recognition service not allowed: Please check your browser settings.")
                 /\ (code \notin {"network", "not-allowed", "service-not-allowed"})
                       = (error'.text = "Speech recognition error: " /\ error'.code = code)
        /\ error.set =>
              /\ restarts' = restarts
              /\ (lastOp' = "end" => (recState' = "inactive" /\ ~isListening'))
              /\ (recState' = "started" /\ recState # "started") => lastOp' = "start"
      ]_vars

\* C9: stopListening is idempotent and safe in every state: no call of it
\* raises an error, and every call leaves the engine Idle, with transcript,
\* error and the handlers of the recognizer unchanged and without a restart
\* of the recognizer.  A call on an engine that is already Idle with its
\* recognizer at rest, and the second of two calls in a row, change nothing
\* of the engine or the recognizer.
C9_StopIsIdempotent ==
    [][ lastOp' = "stop" =>
          /\ ~isListening'
          /\ ~uncaught'
          /\ transcript' = transcript
          /\ error' = error
          /\ UNCHANGED <<onresult, onerror, onend, onendCaptured, restarts>>
          /\ ((~isListening /\ recState # "started") \/ lastOp = "stop") =>
                UNCHANGED <<isListening, recState>>
      ]_vars

\* stopListening was called on an engine that was already Idle (no keep-alive
\* restart has happened, so a recognizer at rest after the call was at rest
\* with isListening false before it), with a transcript and an error present
C9_Witness ==
    /\ lastOp = "stop"
    /\ recState = "inactive"
    /\ restarts = 0
    /\ ~isListening
    /\ transcript # <<>>
    /\ error.set

\* C10: resetTranscript sets the accumulated transcript to empty and changes
\* nothing else: listening state, surfaced error and the recognizer with
\* its handlers are the same before and after, Idle or Listening.
C10_ResetOnlyClearsTranscript ==
    [][ lastOp' = "reset" =>
          /\ transcript' = <<>>
          /\ UNCHANGED <<hasRecognitionSupport, isListening, error, recState,
                         onresult, onerror, onend, onendCaptured, uncaught>>
      ]_vars

\* resetTranscript was called while Listening
C10_Witness ==
    /\ lastOp = "reset"
    /\ transcript = <<>>
    /\ isListening
    /\ recState = "started"
    /\ onend = "keepalive"

----------------------------------------------------------------------------
(* Properties of generateChatResponse, checked under RespondSpec *)

\* the call has ended with every candidate requested and none successful
AllCandidatesFailed ==
    /\ pc = "done"
    /\ Len(outcomes) = Len(models)
    /\ \A i \in 1..Len(outcomes) : outcomes[i].kind # "ok"

\* C4 as stated: the first candidate that returns a success response wins:
\* its first choice's message content is the returned reply, and no
\* candidate after it is ever requested.  (Read for bodies whose first
\* choice carries a string as content.)
C4_FirstSuccessContentReturned ==
    (/\ pc = "done"
     /\ response # 0
     /\ outcomes[response].jsonOk
     /\ outcomes[response].hasFirstChoice
     /\ outcomes[response].content.type = "string")
    => /\ result.message = outcomes[response].content
       /\ requested = [i \in 1..response |-> i]

\* C4, amended: the first candidate (in priority order) that returns a
\* success response ends the chain: every candidate before it failed and no
\* candidate after it is ever requested; when its body has a first choice,
\* the returned reply is that choice's message content if the content is
\* truthy (a non-empty string), and the fixed text "I'm sorry, I couldn't
\* process your request." if the content is empty or missing.
C4_FirstSuccessWins ==
    (pc = "done" /\ response # 0)
    => /\ requested = [i \in 1..response |-> i]
       /\ Len(outcomes) = response
       /\ outcomes[response].kind = "ok"
       /\ \A i \in 1..(response - 1) : outcomes[i].kind # "ok"
       /\ (outcomes[response].jsonOk /\ outcomes[response].hasFirstChoice)
            => LET content == outcomes[response].content
               IN  /\ result.kind = "resolved"
                   /\ result.message =
                        IF \/ (content.type = "string" /\ content.str # <<>>)
                           \/ (content.type = "number" /\ content.num # 0)
                        THEN content
                        ELSE StringValue(<<"I'm sorry, I couldn't process your request.">>)

\* candidate 1 failed with an error status, candidate 2 succeeded, its
\* content was returned and candidate 3 was not requested
C4_Witness ==
    /\ pc = "done"
    /\ response = 2
    /\ outcomes[1].kind = "status"
    /\ requested = <<1, 2>>
    /\ result.message = StringValue(<<"reply B">>)

\* C5: In one call, candidates are requested strictly in priority order, one
\* at a time and each at most once: the request to candidate N+1 is issued
\* only after candidate N's failure (network error or non-2xx status) is
\* known, and a failed candidate is never requested again.
C5_SequentialOncePerCandidate ==
    /\ requested = [i \in 1..Len(requested) |-> i]
    /\ Len(requested) <= Len(models)
    /\ Len(outcomes) = (IF pc = "fetching" THEN Len(requested) - 1 ELSE Len(requested))
    /\ \A i \in 1..(Len(requested) - 1) : outcomes[i].kind \in {"network", "status"}

\* the third candidate is being requested after a network failure of the
\* first and an error status of the second
C5_Witness ==
    /\ pc = "fetching"
    /\ requested = <<1, 2, 3>>
    /\ Len(outcomes) = 2
    /\ outcomes[1].kind = "network"
    /\ outcomes[2].kind = "status"

\* C6: generateChatResponse always resolves with a well-formed object
\* {message: string, service: payload or null} and never rejects, for every
\* message, history and combination of provider outcomes.
\* (The statement of the specification; the code does not satisfy it.)
C6_AlwaysWellFormed ==
    pc = "done"
    => /\ result.kind = "resolved"
       /\ result.message.type = "string"
       /\ \/ result.service.isNull
          \/ result.service.type \in {"appointment", "search", "video"}

\* C7: When every candidate fails in a call, the call returns exactly the
\* fixed apologetic message with service null, whatever the classified
\* intent, and nothing of the per-candidate failures.
C7_ExhaustionGivesApology ==
    AllCandidatesFailed
    => /\ result.kind = "resolved"
       /\ result.message = StringValue(<<"I apologize, but I'm having trouble processing your request right now. Please try again later.">>)
       /\ result.service = NullService

\* every candidate failed in a call whose message was classified Appointment
C7_Witness ==
    /\ AllCandidatesFailed
    /\ serviceType = "appointment"
    /\ result.service.isNull

----------------------------------------------------------------------------
(* Further properties of the speech-capture hook, checked under Spec *)

\* C11: A platform-level failure of the recognizer's start call, in
\* startListening or in a keep-alive restart, is never thrown to the caller
\* and, unless its message indicates "already started", is surfaced to the
\* caller as an error value rather than only logged.
\* (The statement of the specification; the code does not satisfy it.)
C11_StartFailureSurfaced ==
    [][ lastOp' \in {"start", "end"} =>
          /\ ~uncaught'
          /\ startFailure' = "other" => error'.set
      ]_vars

\* C15: When the platform has no speech-recognition capability,
\* startListening is a silent no-op: it does not throw, the engine stays
\* Idle, and transcript and error are unchanged.
C15_StartWithoutSupportIsNoOp ==
    [][ (~hasRecognitionSupport /\ lastOp' = "start") =>
          /\ ~uncaught'
          /\ ~isListening'
          /\ UNCHANGED <<transcript, error, isListening, recState, onresult, onerror,
                         onend, onendCaptured, restarts>>
      ]_vars

\* startListening was called on a platform without the capability
C15_Witness ==
    /\ ~hasRecognitionSupport
    /\ lastOp = "start"
    /\ ~isListening
    /\ recState = "inactive"
    /\ onend = "none"

\* C16: Between two resetTranscript calls the transcript is append-only: for
\* every result event the transcript before the event is a prefix of the
\* transcript after it, and no start, stop, end or error event changes the
\* transcript.
C16_TranscriptAppendOnly ==
    [][ /\ lastOp' = "result" =>
              /\ Len(transcript') >= Len(transcript)
              /\ SubSeq(transcript', 1, Len(transcript)) = transcript
        /\ lastOp' \in {"start", "stop", "end", "error"} => transcript' = transcript
      ]_vars

\* a second result event extended a non-empty transcript
C16_Witness ==
    /\ lastOp = "result"
    /\ finals = << <<"a">>, <<"b", "c">> >>
    /\ transcript = <<" ", "a", " ", "b", "c">>

----------------------------------------------------------------------------
(* Properties of the intent detection, checked under ClassifySpec *)

\* the lower-cased message contains one of the keywords
HasKeyword(msg, keywords) == \E k \in keywords : Includes(ToLowerCase(msg), k)

\* C12: The intents are tested in the fixed order Appointment, Search, Video
\* and the first match wins: every message containing an Appointment
\* keyword (appointment, schedule, book; case-insensitive) is classified
\* Appointment even when it also contains Search or Video keywords, and a
\* message with Search and Video keywords but no Appointment keyword is
\* classified Search.
C12_ClassifyPriority ==
    pc # "idle" =>
       /\ HasKeyword(message, AppointmentKeywords) => serviceType = "appointment"
       /\ (/\ ~HasKeyword(message, AppointmentKeywords)
           /\ HasKeyword(message, SearchKeywords)) => serviceType = "search"
       /\ (/\ ~HasKeyword(message, AppointmentKeywords)
           /\ ~HasKeyword(message, SearchKeywords)
           /\ HasKeyword(message, VideoKeywords)) => serviceType = "video"
       /\ (/\ ~HasKeyword(message, AppointmentKeywords)
           /\ ~HasKeyword(message, SearchKeywords)
           /\ ~HasKeyword(message, VideoKeywords)) => serviceType = "none"

\* a message with keywords of all three intents, in upper and lower case,
\* was classified Appointment
C12_Witness ==
    /\ pc # "idle"
    /\ Includes(message, <<"B","o","o","k">>)
    /\ HasKeyword(message, SearchKeywords)
    /\ Includes(message, <<"W","a","t","c","h">>)
    /\ serviceType = "appointment"

\* C13: A message whose only search cue is a query trigger phrase is
\* classified Search with the text after the phrase as query: "tell me
\* about diabetes" yields (Search, "diabetes") and the curated diabetes
\* payload, "show me asthma" yields (Search, "asthma") and the generic
\* templated payload.
\* (The statement of the specification; the code does not satisfy it.)
C13_TriggerPhraseIsSearch ==
    /\ (pc # "idle" /\ message = <<"t","e","l","l"," ","m","e"," ","a","b","o","u","t"," ","d","i","a","b","e","t","e","s">>)
         => /\ serviceType = "search"
            /\ query = <<"d","i","a","b","e","t","e","s">>
            /\ ServiceData(serviceType, query).data[1] = <<"Diabetes Information">>
    /\ (pc # "idle" /\ message = <<"s","h","o","w"," ","m","e"," ","a","s","t","h","m","a">>)
         => /\ serviceType = "search"
            /\ query = <<"a","s","t","h","m","a">>
            /\ ServiceData(serviceType, query).data[1] = <<"a","s","t","h","m","a">>

\* the query as C17 states it, read without regard to case: everything after
\* the first occurrence of the first listed trigger phrase that occurs,
\* trimmed; without any trigger phrase the whitespace tokens without the stop
\* words, in order, joined by single spaces
ClaimedQuery(msg) ==
    LET lower == ToLowerCase(msg)
        found == { k \in 1..Len(commonPhrases) : Includes(lower, commonPhrases[k]) }
    IN  IF found = {}
        THEN Trim(JoinSpace(Filter(SplitWhiteSpace(lower), wordsToRemove)))
        ELSE LET k == CHOOSE j \in found : \A h \in found : j <= h
                 phrase == commonPhrases[k]
             IN  Trim(SubSeq(lower, IndexOf(lower, phrase) + Len(phrase) + 1, Len(lower)))

\* C17: Query extraction returns the trimmed substring of the message that
\* follows the first trigger phrase found when scanning the fixed ordered
\* phrase list (everything after that phrase, also when the phrase occurs
\* more than once); when no trigger phrase occurs it returns the whitespace
\* tokens of the message with stop words removed, in their original order,
\* joined by single spaces.
\* (The statement of the specification; the code does not satisfy it.)
C17_QueryIsTextAfterPhrase ==
    (pc # "idle" /\ serviceType \in {"search", "video"}) => query = ClaimedQuery(message)

----------------------------------------------------------------------------
(* Further properties of generateChatResponse, checked under RespondSpec *)

\* the call has ended with a kept response whose body yields a reply
DispatcherSucceeded ==
    /\ pc = "done"
    /\ response # 0
    /\ outcomes[response].jsonOk
    /\ outcomes[response].hasFirstChoice

\* C14: When the dispatcher succeeds, the returned service is non-null
\* exactly when the intent is Appointment, or the intent is Search or Video
\* and the extracted query is non-empty; then its type equals the classified
\* intent (and its query the extracted query for Search and Video); for
\* intent None, or Search or Video with an empty query, service is null.
C14_ServiceMatchesIntent ==
    DispatcherSucceeded =>
       /\ ~result.service.isNull
            <=> \/ serviceType = "appointment"
                \/ (serviceType \in {"search", "video"} /\ query # <<>>)
       /\ ~result.service.isNull =>
            /\ result.service.type = serviceType
            /\ serviceType \in {"search", "video"} => result.service.query = query
       /\ result.service.isNull => result.service = NullService

\* a Video message with an empty query got a reply with service null
C14_Witness ==
    /\ DispatcherSucceeded
    /\ serviceType = "video"
    /\ query = <<>>
    /\ result.service.isNull
    /\ result.message = StringValue(<<"reply A">>)

\* C18: If the first candidate that returns a success status has a body that
\* cannot be parsed or has no first choice, the fallback chain ends there:
\* no later candidate is requested, and the call returns the fixed
\* apologetic message with service null.
C18_MalformedSuccessEndsChain ==
    (/\ pc = "done"
     /\ response # 0
     /\ (~outcomes[response].jsonOk \/ ~outcomes[response].hasFirstChoice))
    => /\ requested = [i \in 1..response |-> i]
       /\ Len(outcomes) = response
       /\ result.kind = "resolved"
       /\ result.message = StringValue(<<"I apologize, but I'm having trouble processing your request right now. Please try again later.">>)
       /\ result.service = NullService

\* the first candidate answered with a success status and a body without a
\* first choice, for an Appointment message; the others were not requested
C18_Witness ==
    /\ pc = "done"
    /\ response = 1
    /\ outcomes[1].jsonOk
    /\ ~outcomes[1].hasFirstChoice
    /\ requested = <<1>>
    /\ serviceType = "appointment"
    /\ result.service.isNull

----------------------------------------------------------------------------
(* useChatbot *)

\* C19: once handleSendMessage has stopped an active capture, cleared the
\* input and reset the transcript, the transcript and the input value stay
\* empty until the user types or starts listening again, whatever result and
\* end events the recognizer still delivers.
C19_SendLeavesInputEmpty ==
    sendStoppedCapture => (transcript = <<>> /\ inputValue = <<>>)

\* C20: with speech recognition supported, isListeningForVoice equals the
\* hook's isListening in every state useChatbot reaches.
C20_VoiceFlagTracksListening ==
    hasRecognitionSupport => (isListeningForVoice = isListening)

\* the sendMessage calls among a handler's calls
IsSendMessage(c) == c.fn = "sendMessage"

\* every sendMessage call of cs comes after a call of fn
CalledBeforeSend(cs, fn) ==
    \A j \in 1..Len(cs) :
        IsSendMessage(cs[j]) => \E i \in 1..(j - 1) : cs[i].fn = fn

\* C21: an invocation of handleSendMessage calls sendMessage at most once, and
\* not at all when the input trims to empty or isLoading is true; when it
\* sends, the message is the input value as on entry, and by then capture has
\* been stopped (if it was active), the input cleared and the transcript
\* reset.  The cleared input is still empty after the step unless an effect
\* that was pending on entry has written over it.
C21_SendOnceWithEntryValue ==
    [][ lastOp' \in {"send", "send-skipped"} =>
          LET sends == SelectSeq(calls', IsSendMessage)
          IN  /\ Len(sends) <= 1
              /\ (Trim(inputValue) = <<>> \/ isLoading) => sends = <<>>
              /\ sends # <<>> =>
                   /\ sends[1].arg = inputValue
                   /\ CalledBeforeSend(calls', "setInputValue")
                   /\ CalledBeforeSend(calls', "resetTranscript")
                   /\ Flushed(<<>>) = <<>> => inputValue' = <<>>
                   /\ transcript' = <<>>
                   /\ isListening =>
                        /\ CalledBeforeSend(calls', "stopListening")
                        /\ ~isListening'
                        /\ recState' # "started"
      ]_vars

\* a send of the typed text "hi" that stopped an active capture
C21_Witness ==
    /\ lastOp = "send"
    /\ Len(calls) = 5
    /\ calls[5] = CallOf("sendMessage", <<"h", "i">>)
    /\ recState = "stopping"
    /\ inputValue = <<>>

=============================================================================
